---- MODULE Spec2Model ----
(***************************************************************************)
(* Optimistic reorder / card-move reconciliation of the kanban board       *)
(* (TaskBoard, ProjectPage) and of the status settings (StatusSettings,    *)
(* ProjectSettingsPage), with the request outcomes of apiFetch.            *)
(*                                                                         *)
(* One browser page is mounted at a time (route).  Event handlers run to   *)
(* their first await without interleaving; pc/frame hold the position and  *)
(* the locals of the handler that is between its optimistic update and    *)
(* its api call, or that is blocked in alert().  pending holds the         *)
(* requests in flight together with the values their handler's closure    *)
(* captured.                                                               *)
(***************************************************************************)
EXTENDS Integers, Sequences, FiniteSets, TLC

VARIABLES
    route,          \* which page is mounted: "board" | "settings"
    auth,           \* useAuthStore: user, accessToken, refreshToken, isAuthenticated
    statuses,       \* the mounted page's `statuses` state (ProjectStatus[])
    tasks,          \* ProjectPage `tasks` state (Task[])
    localStatuses,  \* TaskBoard `localStatuses` state
    activeId,       \* TaskBoard `activeId` state
    activeType,     \* TaskBoard `activeType` state
    pc,             \* position of the running handler
    frame,          \* locals of the running handler
    pending,        \* requests in flight, in issue order, with their closures
    error,          \* the mounted page's `error` state
    overColumnId,   \* TaskBoard `overColumnId` state
    selectedTask,   \* TaskBoard `selectedTask` state (the card the modal shows)
    isModalOpen,    \* TaskBoard `isModalOpen` state
    loading,        \* ProjectPage `loading` state
    mounts,         \* how often TaskBoard has been mounted
    unhandled,      \* handlers whose promise rejected
    backend,        \* the durable columns and cards, where they are observed
    settled         \* the last apiFetch call that settled, with its response

vars == <<route, auth, statuses, tasks, localStatuses, activeId, activeType,
          pc, frame, pending, error, overColumnId, selectedTask, isModalOpen, loading, mounts,
          unhandled, backend, settled>>

----------------------------------------------------------------------------
(* Bounds *)

MaxPending == 2

\* How often the page may run fetchData again.
MaxFetches == 1

----------------------------------------------------------------------------
(* Data *)

Null == "null"

Falsy(x) == x = Null \/ x = ""

TaskStatus == {"TODO", "IN_PROGRESS", "IN_REVIEW", "DONE"}

STATUS_SLUG_MAP ==
    [s \in TaskStatus |->
        CASE s = "TODO" -> "todo"
          [] s = "IN_PROGRESS" -> "in_progress"
          [] s = "IN_REVIEW" -> "in_review"
          [] s = "DONE" -> "done"]

DEFAULT_STATUSES ==
    << [id |-> "todo", projectId |-> "", slug |-> "todo"],
       [id |-> "in_progress", projectId |-> "", slug |-> "in_progress"],
       [id |-> "in_review", projectId |-> "", slug |-> "in_review"],
       [id |-> "done", projectId |-> "", slug |-> "done"] >>

\* The columns the backend returns for a project that has statuses.
ServerStatuses ==
    << [id |-> "s1", projectId |-> "p1", slug |-> "todo"],
       [id |-> "s2", projectId |-> "p1", slug |-> "in_progress"],
       [id |-> "s3", projectId |-> "p1", slug |-> "done"] >>

\* A statusId that names no column of the project.
DanglingId == "zz"

LoggedIn ==
    [user |-> "u1", accessToken |-> "at", refreshToken |-> "rt", isAuthenticated |-> TRUE]

LoggedOut ==
    [user |-> Null, accessToken |-> Null, refreshToken |-> Null, isAuthenticated |-> FALSE]

NoFrame == [kind |-> "none"]

\* The durable state is not observed; or the columns in their durable order
\* and the cards as the backend holds them.
NoBackend == [observed |-> FALSE]

\* No apiFetch call has settled yet.
NoSettlement == [state |-> "none"]

Backend(sts, ts) == [observed |-> TRUE, statuses |-> sts, tasks |-> ts]

Ids(cols) == [i \in 1..Len(cols) |-> cols[i].id]

Range(s) == {s[i] : i \in 1..Len(s)}

Min(a, b) == IF a < b THEN a ELSE b

Max(a, b) == IF a > b THEN a ELSE b

----------------------------------------------------------------------------
(* Library and pure functions *)

\* Array.prototype.findIndex on ids: 0-based index of the first match, else -1.
FindIndex(cols, id) ==
    IF \E i \in 1..Len(cols) : cols[i].id = id
    THEN (CHOOSE i \in 1..Len(cols) :
              cols[i].id = id /\ \A j \in 1..(i - 1) : cols[j].id # id) - 1
    ELSE -1

NoColumn == [id |-> Null, projectId |-> Null, slug |-> Null]

\* columns.find((s) => s.slug === slug); NoColumn stands for undefined.
FindBySlug(cols, slug) ==
    IF \E i \in 1..Len(cols) : cols[i].slug = slug
    THEN cols[CHOOSE i \in 1..Len(cols) :
              cols[i].slug = slug /\ \A j \in 1..(i - 1) : cols[j].slug # slug]
    ELSE NoColumn

\* Start index of Array.prototype.splice, clamped as the language defines.
SpliceStart(start, len) ==
    IF start < 0 THEN Max(len + start, 0) ELSE Min(start, len)

RemoveAt(s, i0) == SubSeq(s, 1, i0) \o SubSeq(s, i0 + 2, Len(s))

InsertAt(s, i0, x) == SubSeq(s, 1, i0) \o <<x>> \o SubSeq(s, i0 + 1, Len(s))

\* Faulty variants of arrayMove: the two elements exchanged; the moved element not
\* removed; the destination taken as an index of the list before the removal.
arrayMoveSwap(array, from, to) ==
    [i \in 1..Len(array) |->
        IF i = from + 1 THEN array[to + 1]
        ELSE IF i = to + 1 THEN array[from + 1]
        ELSE array[i]]

arrayMoveKeep(array, from, to) == InsertAt(array, to, array[from + 1])

arrayMoveBefore(array, from, to) ==
    InsertAt(RemoveAt(array, from), IF to > from THEN to - 1 ELSE to, array[from + 1])

\* arrayMove of @dnd-kit/sortable, on 0-based indices:
\*   newArray.splice(to < 0 ? newArray.length + to : to, 0, newArray.splice(from, 1)[0])
arrayMove(array, from, to) ==
    LET f       == SpliceStart(from, Len(array))
        taken   == f < Len(array)
        removed == IF taken THEN array[f + 1] ELSE NoColumn
        rest    == IF taken THEN RemoveAt(array, f) ELSE array
        t0      == IF to < 0 THEN Len(rest) + to ELSE to
        t       == SpliceStart(t0, Len(rest))
    IN  InsertAt(rest, t, removed)

\* TaskBoard `columns` memo.
Columns(sts, local) ==
    LET baseStatuses == IF Len(sts) > 0 THEN sts ELSE DEFAULT_STATUSES
    IN  IF Len(local) > 0 /\ local[1].projectId = baseStatuses[1].projectId
        THEN local
        ELSE baseStatuses

\* Faulty variant of LookupStatusId: the legacy status is not looked up.
LookupStatusIdNoLegacy(task, cols) ==
    IF ~Falsy(task.statusId) THEN task.statusId
    ELSE IF Len(cols) > 0 THEN cols[1].id ELSE Null

\* The statusId local of tasksByStatusId after its fallback lookups.
LookupStatusId(task, cols) ==
    IF ~Falsy(task.statusId)
    THEN task.statusId
    ELSE LET matchingStatus == FindBySlug(cols, STATUS_SLUG_MAP[task.status])
         IN  IF ~Falsy(matchingStatus.id) THEN matchingStatus.id
             ELSE IF Len(cols) > 0 THEN cols[1].id ELSE Null

\* Faulty variant of PushTask: no push to the first column when the id has no bucket.
PushTaskNoFallback(result, task, cols) ==
    LET statusId == LookupStatusId(task, cols)
    IN  IF ~Falsy(statusId) /\ statusId \in DOMAIN result
        THEN [result EXCEPT ![statusId] = Append(@, task)]
        ELSE result

\* One iteration of tasks.forEach in tasksByStatusId: result after the push.
PushTask(result, task, cols) ==
    LET statusId == LookupStatusId(task, cols)
    IN  IF ~Falsy(statusId) /\ statusId \in DOMAIN result
        THEN [result EXCEPT ![statusId] = Append(@, task)]
        ELSE IF Len(cols) > 0 /\ cols[1].id \in DOMAIN result
             THEN [result EXCEPT ![cols[1].id] = Append(@, task)]
             ELSE result

RECURSIVE GroupTasks(_, _, _, _)
GroupTasks(result, ts, cols, i) ==
    IF i > Len(ts) THEN result
    ELSE GroupTasks(PushTask(result, ts[i], cols), ts, cols, i + 1)

\* TaskBoard `tasksByStatusId` memo: column id -> the cards rendered in it.
tasksByStatusId(ts, cols) ==
    GroupTasks([k \in Range(Ids(cols)) |-> <<>>], ts, cols, 1)

\* tasks.find((t) => t.id === id); NoTask stands for undefined.
NoTask == [id |-> Null, statusId |-> Null, status |-> "TODO", title |-> Null]

FindTask(ts, id) ==
    IF \E i \in 1..Len(ts) : ts[i].id = id
    THEN ts[CHOOSE i \in 1..Len(ts) : ts[i].id = id /\ \A j \in 1..(i - 1) : ts[j].id # id]
    ELSE NoTask

\* Faulty variant of handleTaskUpdate: a card that is not in the list is added.
handleTaskUpdateOrAdd(prev, updatedTask) ==
    IF \E i \in 1..Len(prev) : prev[i].id = updatedTask.id
    THEN [i \in 1..Len(prev) |-> IF prev[i].id = updatedTask.id THEN updatedTask ELSE prev[i]]
    ELSE Append(prev, updatedTask)

\* ProjectPage.handleTaskUpdate: replace the card with the same id.
handleTaskUpdate(prev, updatedTask) ==
    [i \in 1..Len(prev) |-> IF prev[i].id = updatedTask.id THEN updatedTask ELSE prev[i]]

\* Outcomes of one persistence request, as apiFetch sees them.
Outcomes == {"ok", "network_error", "unauthorized", "server_error"}

Failures == Outcomes \ {"ok"}

\* apiFetch: the store after the response was handled (401 logs out).
AuthAfter(a, outcome) == IF outcome = "unauthorized" THEN LoggedOut ELSE a

\* apiFetch: whether the returned promise rejects.
apiFetchRejects(outcome) == outcome # "ok"

\* Faulty variant of Catches: the await of the card move is outside the try.
CatchesReordersOnly(kind) == kind \in {"reorder", "settings_reorder"}

\* Whether the handler of this kind of request awaits it inside try/catch.
Catches(kind) ==
    kind \in {"reorder", "move", "settings_reorder", "save", "status_change", "delete",
             "status_create", "status_edit", "status_delete"}

\* The handler's promise after its request rejected: the rejection reaches the
\* caller (dnd-kit, which does not handle it) unless the handler catches it.
Unhandled(un, kind) == IF Catches(kind) THEN un ELSE un \cup {kind}

\* Faulty variant of StatusIds: the ids in the order before the drop.
StatusIdsBeforeDrop(r) == Ids(r.columns)

\* The statusIds a reorder request carries: newColumns.map((c) => c.id).
StatusIds(r) == Ids(r.newColumns)

\* PATCH /projects/:id/statuses/reorder: the durable columns in the order of ids.
BackendReorder(b, ids) ==
    [b EXCEPT !.statuses =
        [i \in 1..Len(ids) |->
            b.statuses[CHOOSE k \in 1..Len(b.statuses) : b.statuses[k].id = ids[i]]]]

\* PATCH /tasks/:id/status: the durable card with the new statusId.
BackendMove(b, taskId, statusId) ==
    [b EXCEPT !.tasks =
        [i \in 1..Len(b.tasks) |->
            IF b.tasks[i].id = taskId THEN [b.tasks[i] EXCEPT !.statusId = statusId]
            ELSE b.tasks[i]]]

\* PATCH /tasks/:id: the durable card with the fields of the body; a statusId
\* that is undefined is not part of the body.
BackendSave(b, taskId, editData) ==
    [b EXCEPT !.tasks =
        [i \in 1..Len(b.tasks) |->
            IF b.tasks[i].id = taskId
            THEN [b.tasks[i] EXCEPT !.title = editData.title,
                                    !.status = editData.status,
                                    !.statusId = IF editData.statusId = Null THEN @
                                                 ELSE editData.statusId]
            ELSE b.tasks[i]]]

\* DELETE /tasks/:id.
BackendDelete(b, taskId) ==
    [b EXCEPT !.tasks = SelectSeq(b.tasks, LAMBDA t : t.id # taskId)]

\* The slugs handleCreate derives from the names the user types.
NewSlugs == {"qa", "blocked"}

\* The column POST /projects/:id/statuses creates for a slug (the id is the
\* backend's choice).
Created(slug) == [id |-> IF slug = "qa" THEN "n1" ELSE "n2", projectId |-> "p1", slug |-> slug]

\* POST /projects/:id/statuses
BackendCreateStatus(b, slug) == [b EXCEPT !.statuses = Append(@, Created(slug))]

\* DELETE /projects/:id/statuses/:statusId
BackendDeleteStatus(b, statusId) ==
    [b EXCEPT !.statuses = SelectSeq(@, LAMBDA c : c.id # statusId)]

\* The durable state after the request r was served.
BackendApply(b, r) ==
    IF ~b.observed THEN b
    ELSE IF r.kind \in {"reorder", "settings_reorder"} THEN BackendReorder(b, StatusIds(r))
    ELSE IF r.kind \in {"move", "status_change"}
    THEN BackendMove(b, r.task.id, r.targetStatusId)
    ELSE IF r.kind = "save" THEN BackendSave(b, r.task.id, r.editData)
    ELSE IF r.kind = "delete" THEN BackendDelete(b, r.task.id)
    ELSE IF r.kind = "status_create" THEN BackendCreateStatus(b, r.slug)
    ELSE IF r.kind = "status_delete" THEN BackendDeleteStatus(b, r.statusId)
    ELSE b

----------------------------------------------------------------------------
(* Drag identifiers: kind stands for the "column-" / "droppable-" prefix of *)
(* the dnd-kit id, id for the rest of the string (a card's id has no prefix) *)

NoDrag == [kind |-> "none", id |-> Null]

ColumnDrag(id) == [kind |-> "column", id |-> id]

DroppableDrag(id) == [kind |-> "droppable", id |-> id]

TaskDrag(id) == [kind |-> "task", id |-> id]

\* The sortable and droppable items the board renders.
ColumnDraggables(cols) == {ColumnDrag(cols[i].id) : i \in 1..Len(cols)}

TaskDraggables(ts) == {TaskDrag(ts[i].id) : i \in 1..Len(ts)}

DropTargets(ts, cols) ==
    ColumnDraggables(cols) \cup TaskDraggables(ts)
        \cup {DroppableDrag(cols[i].id) : i \in 1..Len(cols)}

----------------------------------------------------------------------------
(* Initial states: a page after its fetchData has completed *)

Task(id, statusId, status) ==
    [id |-> id, statusId |-> statusId, status |-> status, title |-> "a"]

\* Cards as the backend may return them: with a statusId of the project, with
\* none (legacy status only), or with one that names no column.
CardShapes ==
    [statusId : {Null}, status : TaskStatus]
        \cup [statusId : {"s1", "s2", DanglingId}, status : {"TODO"}]

\* Every shape of card next to a card whose statusId names no column.
AllTaskLists ==
    { <<Task("t1", a.statusId, a.status), Task("t2", DanglingId, "DONE")>> :
        a \in CardShapes }

\* Pairs of cards for the moves: an unresolvable and an unknown column, a
\* legacy status and a statusId, a statusId and an unresolvable column.
MoveTaskLists ==
    { <<Task("t1", Null, "IN_REVIEW"), Task("t2", DanglingId, "DONE")>>,
      <<Task("t1", Null, "TODO"), Task("t2", "s2", "IN_PROGRESS")>>,
      <<Task("t1", "s1", "TODO"), Task("t2", Null, "IN_REVIEW")>> }

\* t1 has no resolvable column, t2 names a column the project does not have.
FewTaskLists ==
    { <<Task("t1", Null, "IN_REVIEW"), Task("t2", DanglingId, "DONE")>> }

\* No handler is running and no request is in flight.
InitIdle ==
    /\ overColumnId = Null
    /\ settled = NoSettlement
    /\ selectedTask = NoTask
    /\ isModalOpen = FALSE
    /\ loading = FALSE
    /\ mounts = 1
    /\ unhandled = {}
    /\ localStatuses = IF route = "board" THEN statuses ELSE <<>>
    /\ activeId = NoDrag
    /\ activeType = Null
    /\ pc = "idle"
    /\ frame = NoFrame
    /\ pending = <<>>
    /\ error = Null

\* The page of a signed-in user.
InitRest ==
    /\ auth = LoggedIn
    /\ InitIdle

\* A project that has only the first two of these columns.
TwoStatuses == SubSeq(ServerStatuses, 1, 2)

\* The board or the status settings of a project with two columns, where
\* reorders, moves and their responses all interleave.
Init ==
    /\ route \in {"board", "settings"}
    /\ statuses = TwoStatuses
    /\ tasks \in IF route = "board" THEN FewTaskLists ELSE {<<>>}
    /\ InitRest
    /\ backend = NoBackend

\* The board of a project with three columns or without statuses (placeholder
\* columns), or the status settings of a project with three columns.
InitReorder ==
    /\ route \in {"board", "settings"}
    /\ statuses \in IF route = "board" THEN {<<>>, ServerStatuses} ELSE {ServerStatuses}
    /\ tasks \in IF route = "board" THEN FewTaskLists ELSE {<<>>}
    /\ InitRest
    /\ backend = NoBackend

\* The board of a project with statuses and two cards.
InitMove ==
    /\ route = "board"
    /\ statuses = ServerStatuses
    /\ tasks \in MoveTaskLists
    /\ InitRest
    /\ backend = NoBackend

\* The board of a project without statuses: the placeholder columns, which
\* belong to no project, with the two cards.
InitPlaceholder ==
    /\ route = "board"
    /\ statuses = <<>>
    /\ tasks \in FewTaskLists
    /\ InitRest
    /\ backend = NoBackend

\* The board of a project with two columns and the two cards.
InitDrag ==
    /\ route = "board"
    /\ statuses = TwoStatuses
    /\ tasks \in FewTaskLists
    /\ InitRest
    /\ backend = NoBackend

\* The board of a project with two columns and one card, with the backend's
\* durable state, which the page has just fetched.
InitSync ==
    /\ route = "board"
    /\ statuses = TwoStatuses
    /\ tasks = <<Task("t1", Null, "TODO")>>
    /\ InitRest
    /\ backend = Backend(statuses, tasks)

\* The board with every shape of card, with and without statuses.
InitGrouping ==
    /\ route = "board"
    /\ statuses \in {<<>>, ServerStatuses}
    /\ tasks \in AllTaskLists
    /\ InitRest
    /\ backend = NoBackend

----------------------------------------------------------------------------
(* TaskBoard *)

\* The board is rendered only for an authenticated user (ProjectPage).
BoardShown == route = "board" /\ auth.isAuthenticated /\ ~loading /\ error = Null

handleDragStart(active) ==
    /\ BoardShown
    /\ ~isModalOpen
    /\ pc = "idle"
    /\ activeId = NoDrag
    /\ Len(pending) < MaxPending
    /\ active \in ColumnDraggables(Columns(statuses, localStatuses)) \cup TaskDraggables(tasks)
    /\ activeId' = active
    /\ activeType' = IF active.kind = "column" THEN "column" ELSE "task"
    /\ UNCHANGED <<overColumnId, selectedTask, isModalOpen, loading, mounts, unhandled, backend,
                   route, settled, auth, statuses, tasks, localStatuses, pc, frame, pending, error>>

\* handleDragEnd, task branch: the column the drop target stands for.
TargetStatusId(over, ts, cols) ==
    IF over.kind \in {"droppable", "column"}
    THEN over.id
    ELSE LET overTask == FindTask(ts, over.id)
         IN  IF overTask = NoTask THEN Null
             ELSE IF ~Falsy(overTask.statusId) THEN overTask.statusId
             ELSE FindBySlug(cols, STATUS_SLUG_MAP[overTask.status]).id

\* handleDragEnd, task branch: the column the card is taken to be in.
CurrentStatusId(task, cols) ==
    IF ~Falsy(task.statusId) THEN task.statusId
    ELSE FindBySlug(cols, STATUS_SLUG_MAP[task.status]).id

\* Faulty variant of ReorderColumnsApply: the order is not applied before the call.
ReorderColumnsApplyLate(activeColumnId, overId, cols) ==
    LET oldIndex   == FindIndex(cols, activeColumnId)
        newIndex   == FindIndex(cols, overId)
        newColumns == arrayMove(cols, oldIndex, newIndex)
        projectId  == cols[1].projectId
    IN  /\ UNCHANGED localStatuses
        /\ IF activeColumnId # overId /\ oldIndex # -1 /\ newIndex # -1
                /\ ~Falsy(projectId)
           THEN /\ pc' = "reorder_call"
                /\ frame' = [kind |-> "reorder", columns |-> cols,
                             oldIndex |-> oldIndex, newIndex |-> newIndex,
                             newColumns |-> newColumns, projectId |-> projectId,
                             mount |-> mounts]
           ELSE UNCHANGED <<pc, frame>>

\* Faulty variant of ReorderColumnsApply: the request is sent whatever the
\* first column's projectId is.
ReorderColumnsApplyNoGuard(activeColumnId, overId, cols) ==
    LET oldIndex   == FindIndex(cols, activeColumnId)
        newIndex   == FindIndex(cols, overId)
        newColumns == arrayMove(cols, oldIndex, newIndex)
        projectId  == cols[1].projectId
    IN  IF activeColumnId # overId /\ oldIndex # -1 /\ newIndex # -1
        THEN /\ localStatuses' = newColumns
             /\ pc' = "reorder_call"
             /\ frame' = [kind |-> "reorder", columns |-> cols,
                          oldIndex |-> oldIndex, newIndex |-> newIndex,
                          newColumns |-> newColumns, projectId |-> projectId,
                          mount |-> mounts]
        ELSE UNCHANGED <<localStatuses, pc, frame>>

\* handleDragEnd, column branch, up to the optimistic setLocalStatuses.
ReorderColumnsApply(activeColumnId, overId, cols) ==
    LET oldIndex   == FindIndex(cols, activeColumnId)
        newIndex   == FindIndex(cols, overId)
        newColumns == arrayMove(cols, oldIndex, newIndex)
        projectId  == cols[1].projectId
    IN  IF activeColumnId # overId /\ oldIndex # -1 /\ newIndex # -1
        THEN /\ localStatuses' = newColumns
             /\ IF ~Falsy(projectId)
                THEN /\ pc' = "reorder_call"
                     /\ frame' = [kind |-> "reorder", columns |-> cols,
                                  oldIndex |-> oldIndex, newIndex |-> newIndex,
                                  newColumns |-> newColumns, projectId |-> projectId,
                             mount |-> mounts]
                ELSE UNCHANGED <<pc, frame>>
        ELSE UNCHANGED <<localStatuses, pc, frame>>

\* handleDragEnd, task branch, up to the optimistic onTaskUpdate.
MoveCardApply(taskId, over, cols) ==
    LET task            == FindTask(tasks, taskId)
        targetStatusId  == TargetStatusId(over, tasks, cols)
        currentStatusId == CurrentStatusId(task, cols)
    IN  IF task # NoTask /\ ~Falsy(targetStatusId) /\ targetStatusId # currentStatusId
        THEN /\ tasks' = handleTaskUpdate(tasks, [task EXCEPT !.statusId = targetStatusId])
             /\ pc' = "move_call"
             /\ frame' = [kind |-> "move", task |-> task, targetStatusId |-> targetStatusId]
        ELSE UNCHANGED <<tasks, pc, frame>>

\* handleDragOver: the column under the pointer.
handleDragOver(over) ==
    /\ BoardShown
    /\ pc = "idle"
    /\ activeId # NoDrag
    /\ over \in DropTargets(tasks, Columns(statuses, localStatuses)) \cup {NoDrag}
    /\ overColumnId' =
          IF over = NoDrag THEN Null
          ELSE IF over.kind \in {"droppable", "column"} THEN over.id
          ELSE IF FindTask(tasks, over.id) = NoTask THEN overColumnId
          ELSE TargetStatusId(over, tasks, Columns(statuses, localStatuses))
    /\ UNCHANGED <<route, settled, auth, statuses, tasks, localStatuses, activeId, activeType,
                   pc, frame, pending, error, selectedTask, isModalOpen, loading, mounts,
                   unhandled, backend>>

\* Faulty variant of ResetDrag: overColumnId is left as it is.
ResetDragKeepsOver ==
    /\ activeId' = NoDrag
    /\ activeType' = Null
    /\ UNCHANGED overColumnId

\* handleDragEnd: the three setters it starts with.
ResetDrag ==
    /\ activeId' = NoDrag
    /\ activeType' = Null
    /\ overColumnId' = Null

handleDragEnd(over) ==
    /\ BoardShown
    /\ pc = "idle"
    /\ activeId # NoDrag
    /\ over \in DropTargets(tasks, Columns(statuses, localStatuses)) \cup {NoDrag}
    /\ ResetDrag
    /\ LET active == activeId
           cols   == Columns(statuses, localStatuses)
       IN  IF over = NoDrag
           THEN UNCHANGED <<tasks, localStatuses, pc, frame>>
           ELSE IF active.kind = "column" /\ over.kind = "column"
           THEN ReorderColumnsApply(active.id, over.id, cols) /\ UNCHANGED tasks
           ELSE IF activeType = "task"
           THEN MoveCardApply(active.id, over, cols) /\ UNCHANGED localStatuses
           ELSE UNCHANGED <<tasks, localStatuses, pc, frame>>
    /\ UNCHANGED <<selectedTask, isModalOpen, loading, mounts, unhandled, backend,
                   route, settled, auth, statuses, pending, error>>

\* handleDragEnd, column branch: api.reorderStatuses(projectId, ids) is sent.
ReorderStatusesCall ==
    /\ pc = "reorder_call"
    /\ pending' = Append(pending, frame)
    /\ pc' = "idle"
    /\ frame' = NoFrame
    /\ UNCHANGED <<overColumnId, selectedTask, isModalOpen, loading, mounts, unhandled, backend,
                   route, settled, auth, statuses, tasks, localStatuses, activeId, activeType, error>>

\* handleDragEnd, task branch: api.updateTaskStatusById(taskId, target) is sent.
UpdateTaskStatusCall ==
    /\ pc = "move_call"
    /\ pending' = Append(pending, frame)
    /\ pc' = "idle"
    /\ frame' = NoFrame
    /\ UNCHANGED <<overColumnId, selectedTask, isModalOpen, loading, mounts, unhandled, backend,
                   route, settled, auth, statuses, tasks, localStatuses, activeId, activeType, error>>

Without(s, i) == SubSeq(s, 1, i - 1) \o SubSeq(s, i + 1, Len(s))

\* Faulty variant of ReorderRevertValue: the catch hands over the optimistic order.
ReorderRevertValueOptimistic(r) == r.newColumns

\* The value the column branch's catch hands to setLocalStatuses.
ReorderRevertValue(r) == r.columns

\* Faulty variant of MoveRevertValue: the catch hands over the optimistic card.
MoveRevertValueOptimistic(r) == [r.task EXCEPT !.statusId = r.targetStatusId]

\* The value the task branch's catch hands to onTaskUpdate.
MoveRevertValue(r) == r.task

\* A request of the board resolves: the handler has nothing left to do.
BoardRequestSucceeds(i) ==
    /\ pc = "idle"
    /\ i \in 1..Len(pending)
    /\ pending[i].kind \in {"reorder", "move"}
    /\ backend' = BackendApply(backend, pending[i])
    /\ pending' = Without(pending, i)
    /\ UNCHANGED <<overColumnId, selectedTask, isModalOpen, loading, mounts, unhandled,
                   route, settled, auth, statuses, tasks, localStatuses, activeId, activeType,
                   pc, frame, error>>

\* api.reorderStatuses rejects: the catch of the column branch logs and opens
\* the alert, which blocks the page until it is dismissed.
ReorderStatusesFails(i, outcome) ==
    /\ pc = "idle"
    /\ i \in 1..Len(pending)
    /\ pending[i].kind = "reorder"
    /\ apiFetchRejects(outcome)
    /\ auth' = AuthAfter(auth, outcome)
    /\ unhandled' = Unhandled(unhandled, "reorder")
    /\ IF Catches("reorder")
       THEN pc' = "reorder_alert" /\ frame' = pending[i]
       ELSE UNCHANGED <<pc, frame>>
    /\ pending' = Without(pending, i)
    /\ UNCHANGED <<overColumnId, selectedTask, isModalOpen, loading, mounts, backend,
                   route, settled, statuses, tasks, localStatuses, activeId, activeType, error>>

\* Faulty variant of ReorderStatusesRevert: after the revert the catch sends
\* the request again.
ReorderStatusesRevertRetries ==
    /\ pc = "reorder_alert"
    /\ localStatuses' = IF frame.mount = mounts /\ ~loading
                        THEN ReorderRevertValue(frame)
                        ELSE localStatuses
    /\ pending' = Append(pending, frame)
    /\ pc' = "idle"
    /\ frame' = NoFrame
    /\ UNCHANGED <<overColumnId, selectedTask, isModalOpen, loading, mounts, unhandled, backend,
                   route, settled, auth, statuses, tasks, activeId, activeType, error>>

\* The alert is dismissed: the catch goes on to setLocalStatuses(columns).
ReorderStatusesRevert ==
    /\ pc = "reorder_alert"
    /\ localStatuses' = IF frame.mount = mounts /\ ~loading
                        THEN ReorderRevertValue(frame)
                        ELSE localStatuses
    /\ pc' = "idle"
    /\ frame' = NoFrame
    /\ UNCHANGED <<overColumnId, selectedTask, isModalOpen, loading, mounts, unhandled, backend,
                   route, settled, auth, statuses, tasks, activeId, activeType, pending, error>>

\* api.updateTaskStatusById rejects: the catch of the task branch.
UpdateTaskStatusFails(i, outcome) ==
    /\ pc = "idle"
    /\ i \in 1..Len(pending)
    /\ pending[i].kind = "move"
    /\ apiFetchRejects(outcome)
    /\ auth' = AuthAfter(auth, outcome)
    /\ unhandled' = Unhandled(unhandled, "move")
    /\ tasks' = IF Catches("move")
                THEN handleTaskUpdate(tasks, MoveRevertValue(pending[i]))
                ELSE tasks
    /\ pending' = Without(pending, i)
    /\ UNCHANGED <<overColumnId, selectedTask, isModalOpen, loading, mounts, backend,
                   route, settled, statuses, localStatuses, activeId, activeType, pc, frame, error>>

----------------------------------------------------------------------------
(* TaskDetailModal on the board *)

\* The title the user types into the modal.
Titles == {"b"}

\* TaskBoard.handleTaskClick: ignored while a drag is active.
handleTaskClick(id) ==
    /\ BoardShown
    /\ pc = "idle"
    /\ ~isModalOpen
    /\ activeId = NoDrag
    /\ FindTask(tasks, id) # NoTask
    /\ selectedTask' = FindTask(tasks, id)
    /\ isModalOpen' = TRUE
    /\ UNCHANGED <<route, settled, auth, statuses, tasks, localStatuses, activeId, activeType,
                   pc, frame, pending, error, overColumnId, loading, mounts,
                   unhandled, backend>>

\* TaskBoard.handleCloseModal.
handleCloseModal ==
    /\ BoardShown
    /\ pc = "idle"
    /\ isModalOpen
    /\ selectedTask' = NoTask
    /\ isModalOpen' = FALSE
    /\ UNCHANGED <<route, settled, auth, statuses, tasks, localStatuses, activeId, activeType,
                   pc, frame, pending, error, overColumnId, loading, mounts,
                   unhandled, backend>>

\* Faulty variant of ModalRequest: a status change is applied to the card
\* before the request is sent.
ModalRequestOptimistic(r) ==
    /\ BoardShown
    /\ pc = "idle"
    /\ isModalOpen
    /\ selectedTask # NoTask
    /\ Len(pending) < MaxPending
    /\ pending' = Append(pending, r)
    /\ tasks' = IF r.kind = "status_change"
                THEN handleTaskUpdate(tasks, [r.task EXCEPT !.statusId = r.targetStatusId])
                ELSE tasks
    /\ UNCHANGED <<route, settled, auth, statuses, localStatuses, activeId, activeType,
                   pc, frame, error, overColumnId, selectedTask, isModalOpen, loading,
                   mounts, unhandled, backend>>

\* A request of the modal is sent, with the `task` prop its handler closes over.
ModalRequest(r) ==
    /\ BoardShown
    /\ pc = "idle"
    /\ isModalOpen
    /\ selectedTask # NoTask
    /\ Len(pending) < MaxPending
    /\ pending' = Append(pending, r)
    /\ UNCHANGED <<route, settled, auth, statuses, tasks, localStatuses, activeId, activeType,
                   pc, frame, error, overColumnId, selectedTask, isModalOpen, loading,
                   mounts, unhandled, backend>>

\* TaskDetailModal.handleSave: api.updateTask(task.id, editData), where editData
\* was filled from the task when the modal opened and the title was edited.
handleSave(title) ==
    ModalRequest([kind |-> "save", task |-> selectedTask,
                  editData |-> [title |-> title, status |-> selectedTask.status,
                                statusId |-> selectedTask.statusId]])

\* TaskDetailModal.handleStatusChange: api.updateTaskStatusById(task.id, statusId).
handleStatusChange(statusId) ==
    ModalRequest([kind |-> "status_change", task |-> selectedTask,
                  targetStatusId |-> statusId])

\* TaskDetailModal.handleDelete, confirmed: api.deleteTask(task.id).
handleDelete ==
    ModalRequest([kind |-> "delete", task |-> selectedTask])

\* The card the handler of a resolved request of the modal hands to onUpdate.
ModalUpdatedTask(r, response) ==
    IF r.kind = "status_change"
    THEN [response EXCEPT !.statusId = r.targetStatusId]
    ELSE response

\* A request of the modal resolves.  Save and status change: onUpdate, which
\* is TaskBoard.handleTaskUpdate (onTaskUpdate, setSelectedTask).  Delete:
\* onDelete (ProjectPage.handleTaskDelete) and onClose.
ModalRequestSucceeds(i) ==
    /\ pc = "idle"
    /\ i \in 1..Len(pending)
    /\ pending[i].kind \in {"save", "status_change", "delete"}
    /\ backend.observed
    /\ FindTask(backend.tasks, pending[i].task.id) # NoTask
    /\ backend' = BackendApply(backend, pending[i])
    /\ pending' = Without(pending, i)
    /\ IF pending[i].kind = "delete"
       THEN /\ tasks' = SelectSeq(tasks, LAMBDA t : t.id # pending[i].task.id)
            /\ selectedTask' = NoTask
            /\ isModalOpen' = FALSE
       ELSE LET updatedTask ==
                    ModalUpdatedTask(pending[i], FindTask(backend'.tasks, pending[i].task.id))
            IN  /\ tasks' = handleTaskUpdate(tasks, updatedTask)
                /\ selectedTask' = updatedTask
                /\ UNCHANGED isModalOpen
    /\ UNCHANGED <<route, settled, auth, statuses, localStatuses, activeId, activeType,
                   pc, frame, error, overColumnId, loading, mounts, unhandled>>

\* A request of the modal rejects: the catch logs to the console.
ModalRequestFails(i, outcome) ==
    /\ pc = "idle"
    /\ i \in 1..Len(pending)
    /\ pending[i].kind \in {"save", "status_change", "delete"}
    /\ apiFetchRejects(outcome)
    /\ auth' = AuthAfter(auth, outcome)
    /\ unhandled' = Unhandled(unhandled, pending[i].kind)
    /\ pending' = Without(pending, i)
    /\ UNCHANGED <<route, settled, statuses, tasks, localStatuses, activeId, activeType,
                   pc, frame, error, overColumnId, selectedTask, isModalOpen, loading,
                   mounts, backend>>

----------------------------------------------------------------------------
(* ProjectPage.fetchData *)

\* fetchData up to its first await: setLoading(true), setError(null).  While
\* loading, ProjectPage renders the spinner in place of TaskBoard, whose state
\* is dropped with it.
FetchDataStarts ==
    /\ route = "board"
    /\ auth.isAuthenticated
    /\ ~loading
    /\ pc = "idle"
    /\ backend.observed
    /\ mounts < 1 + MaxFetches
    /\ loading' = TRUE
    /\ error' = Null
    /\ localStatuses' = <<>>
    /\ activeId' = NoDrag
    /\ activeType' = Null
    /\ overColumnId' = Null
    /\ selectedTask' = NoTask
    /\ isModalOpen' = FALSE
    /\ UNCHANGED <<route, settled, auth, statuses, tasks, pc, frame, pending, mounts,
                   unhandled, backend>>

\* Faulty variant of FetchedTasks: cards the page already holds are kept.
FetchedTasksMerged(prev, tasksData) ==
    [i \in 1..Len(tasksData) |->
        IF FindTask(prev, tasksData[i].id) # NoTask
        THEN FindTask(prev, tasksData[i].id)
        ELSE tasksData[i]]

\* setTasks(tasksData): the new `tasks` state.
FetchedTasks(prev, tasksData) == tasksData

\* TaskBoard mounts: localStatuses starts empty and the sync memo copies a
\* non-empty `statuses` into it.
MountedLocalStatuses(sts) == IF Len(sts) > 0 THEN sts ELSE <<>>

\* fetchData: the responses have arrived; setTasks, setStatuses and, in the
\* finally block, setLoading(false), after which TaskBoard is mounted anew.
FetchDataSucceeds ==
    /\ route = "board"
    /\ loading
    /\ pc = "idle"
    /\ backend.observed
    /\ tasks' = FetchedTasks(tasks, backend.tasks)
    /\ statuses' = backend.statuses
    /\ loading' = FALSE
    /\ mounts' = mounts + 1
    /\ localStatuses' = MountedLocalStatuses(statuses')
    /\ UNCHANGED <<route, settled, auth, activeId, activeType, overColumnId, selectedTask, isModalOpen,
                   pc, frame, pending, error, unhandled, backend>>

\* fetchData: a request rejects; the catch sets the page's error, the finally
\* block ends the loading.  The page then shows the error in place of the board.
FetchDataFails(outcome) ==
    /\ route = "board"
    /\ loading
    /\ pc = "idle"
    /\ apiFetchRejects(outcome)
    /\ auth' = AuthAfter(auth, outcome)
    /\ error' = "load_failed"
    /\ loading' = FALSE
    /\ UNCHANGED <<route, settled, statuses, tasks, localStatuses, activeId, activeType,
                   overColumnId, selectedTask, isModalOpen, pc, frame, pending, mounts,
                   unhandled, backend>>

----------------------------------------------------------------------------
(* StatusSettings on ProjectSettingsPage *)

SettingsShown == route = "settings" /\ auth.isAuthenticated

\* handleDragEnd up to the optimistic onStatusesUpdate(newStatuses).
SettingsHandleDragEnd(active, over) ==
    /\ SettingsShown
    /\ pc = "idle"
    /\ Len(pending) < MaxPending
    /\ active \in Range(Ids(statuses))
    /\ over \in Range(Ids(statuses)) \cup {Null}
    /\ IF over # Null /\ active # over
       THEN LET oldIndex    == FindIndex(statuses, active)
                newIndex    == FindIndex(statuses, over)
                newStatuses == arrayMove(statuses, oldIndex, newIndex)
            IN  /\ statuses' = newStatuses
                /\ pc' = "settings_call"
                /\ frame' = [kind |-> "settings_reorder", columns |-> statuses,
                             oldIndex |-> oldIndex, newIndex |-> newIndex,
                             newColumns |-> newStatuses, projectId |-> "p1"]
       ELSE UNCHANGED <<statuses, pc, frame>>
    /\ UNCHANGED <<overColumnId, selectedTask, isModalOpen, loading, mounts, unhandled, backend,
                   route, settled, auth, tasks, localStatuses, activeId, activeType, pending, error>>

\* handleDragEnd: setError(null), then api.reorderStatuses(projectId, ids) is sent.
SettingsReorderCall ==
    /\ pc = "settings_call"
    /\ error' = Null
    /\ pending' = Append(pending, frame)
    /\ pc' = "idle"
    /\ frame' = NoFrame
    /\ UNCHANGED <<overColumnId, selectedTask, isModalOpen, loading, mounts, unhandled, backend,
                   route, settled, auth, statuses, tasks, localStatuses, activeId, activeType>>

\* The value the catch hands to onStatusesUpdate.
SettingsRevertValue(r) == r.columns

SettingsReorderSucceeds(i) ==
    /\ pc = "idle"
    /\ i \in 1..Len(pending)
    /\ pending[i].kind = "settings_reorder"
    /\ backend.observed => Range(StatusIds(pending[i])) = Range(Ids(backend.statuses))
    /\ backend' = BackendApply(backend, pending[i])
    /\ pending' = Without(pending, i)
    /\ UNCHANGED <<overColumnId, selectedTask, isModalOpen, loading, mounts, unhandled,
                   route, settled, auth, statuses, tasks, localStatuses, activeId, activeType,
                   pc, frame, error>>

\* api.reorderStatuses rejects: the catch of StatusSettings.handleDragEnd.
SettingsReorderFails(i, outcome) ==
    /\ pc = "idle"
    /\ i \in 1..Len(pending)
    /\ pending[i].kind = "settings_reorder"
    /\ apiFetchRejects(outcome)
    /\ auth' = AuthAfter(auth, outcome)
    /\ unhandled' = Unhandled(unhandled, "settings_reorder")
    /\ IF Catches("settings_reorder")
       THEN error' = "reorder_failed" /\ statuses' = SettingsRevertValue(pending[i])
       ELSE UNCHANGED <<error, statuses>>
    /\ pending' = Without(pending, i)
    /\ UNCHANGED <<overColumnId, selectedTask, isModalOpen, loading, mounts, backend,
                   route, settled, tasks, localStatuses, activeId, activeType, pc, frame>>

\* A handler of StatusSettings sends its request: setError(null), then the
\* api call, with the `statuses` prop its closure holds.
SettingsRequest(r) ==
    /\ SettingsShown
    /\ pc = "idle"
    /\ Len(pending) < MaxPending
    /\ error' = Null
    /\ pending' = Append(pending, r)
    /\ UNCHANGED <<route, settled, auth, statuses, tasks, localStatuses, activeId,
                   activeType, pc, frame, overColumnId, selectedTask, isModalOpen,
                   loading, mounts, unhandled, backend>>

\* StatusSettings.handleCreate: api.createStatus(projectId, {..., slug, position}).
SettingsHandleCreate(slug) ==
    /\ \A c \in Range(statuses) : c.slug # slug
    /\ \A i \in 1..Len(pending) : pending[i].kind = "status_create" => pending[i].slug # slug
    /\ SettingsRequest([kind |-> "status_create", columns |-> statuses, slug |-> slug,
                        position |-> Len(statuses)])

\* StatusSettings.handleSaveEdit: api.updateStatus(projectId, editingStatus.id, ...).
SettingsHandleSaveEdit(statusId) ==
    /\ statusId \in Range(Ids(statuses))
    /\ SettingsRequest([kind |-> "status_edit", columns |-> statuses, statusId |-> statusId])

\* StatusSettings.handleDelete, confirmed: api.deleteStatus(projectId, statusId).
\* The button is disabled when one column is left.
SettingsHandleDelete(statusId) ==
    /\ statusId \in Range(Ids(statuses))
    /\ Len(statuses) > 1
    /\ SettingsRequest([kind |-> "status_delete", columns |-> statuses, statusId |-> statusId])

\* Whether the backend serves the request: it creates no second column with a
\* slug and it edits and deletes only columns it has.
BackendServes(b, r) ==
    IF r.kind = "status_create" THEN \A c \in Range(b.statuses) : c.slug # r.slug
    ELSE r.statusId \in Range(Ids(b.statuses))

\* The list the handler hands to onStatusesUpdate after its call resolved:
\* [...statuses, created], statuses.map(... updated ...), statuses.filter(...),
\* each over the `statuses` of its closure.  The updated column has the id,
\* projectId and slug it had.
SettingsUpdateValue(r, current) ==
    IF r.kind = "status_create" THEN Append(r.columns, Created(r.slug))
    ELSE IF r.kind = "status_delete" THEN SelectSeq(r.columns, LAMBDA c : c.id # r.statusId)
    ELSE r.columns

\* A create, edit or delete of StatusSettings resolves.
SettingsRequestSucceeds(i) ==
    /\ pc = "idle"
    /\ i \in 1..Len(pending)
    /\ pending[i].kind \in {"status_create", "status_edit", "status_delete"}
    /\ backend.observed
    /\ BackendServes(backend, pending[i])
    /\ backend' = BackendApply(backend, pending[i])
    /\ statuses' = IF SettingsShown THEN SettingsUpdateValue(pending[i], statuses)
                   ELSE statuses
    /\ pending' = Without(pending, i)
    /\ UNCHANGED <<route, settled, auth, tasks, localStatuses, activeId, activeType,
                   pc, frame, error, overColumnId, selectedTask, isModalOpen,
                   loading, mounts, unhandled>>

\* A create, edit or delete of StatusSettings rejects: the catch sets the error.
SettingsRequestFails(i, outcome) ==
    /\ pc = "idle"
    /\ i \in 1..Len(pending)
    /\ pending[i].kind \in {"status_create", "status_edit", "status_delete"}
    /\ apiFetchRejects(outcome)
    /\ auth' = AuthAfter(auth, outcome)
    /\ unhandled' = Unhandled(unhandled, pending[i].kind)
    /\ error' = IF Catches(pending[i].kind) THEN pending[i].kind ELSE error
    /\ pending' = Without(pending, i)
    /\ UNCHANGED <<route, settled, statuses, tasks, localStatuses, activeId, activeType,
                   pc, frame, overColumnId, selectedTask, isModalOpen,
                   loading, mounts, backend>>

\* The status settings of a project with two columns, with the backend's
\* durable columns.
InitSettings ==
    /\ route = "settings"
    /\ statuses = TwoStatuses
    /\ tasks = <<>>
    /\ InitRest
    /\ backend = Backend(statuses, tasks)

----------------------------------------------------------------------------
(* apiFetch, useAuthStore and LoginPage *)

\* JavaScript's undefined.
Undefined == "undefined"

\* What a response body parses to: not JSON at all, the JSON value null, or
\* an object with or without a data field and with or without error.message.
Bodies == {"invalid", "null", "data_user", "data_stub", "data_null", "no_data",
           "error_message", "error_no_message"}

\* body.data of a parsed object.
DataOf(body) ==
    IF body = "data_user" THEN "u1"
    ELSE IF body = "data_stub" THEN "u0"
    ELSE IF body = "data_null" THEN Null
    ELSE Undefined

\* body.error?.message of a parsed object.
MessageOf(body) == IF body = "error_message" THEN "message" ELSE Undefined

HttpStatuses == {200, 204, 401, 404, 500}

\* What fetch() gives to apiFetch: it rejects, or it resolves with a response
\* (status, whether content-type includes application/json, body).
Responses ==
    {[kind |-> "network_error"]}
       \cup [kind : {"response"}, status : HttpStatuses, json : BOOLEAN, body : Bodies]

\* response.ok
Ok(response) == response.status >= 200 /\ response.status <= 299

Rejected(message, loggedOut) ==
    [state |-> "rejected", value |-> message, logout |-> loggedOut]

Fulfilled(value) == [state |-> "fulfilled", value |-> value, logout |-> FALSE]

\* Faulty variant of apiFetch: the body's data is returned without looking at
\* response.ok.
apiFetchIgnoresOk(response) ==
    IF response.kind = "network_error" THEN Rejected("Failed to fetch", FALSE)
    ELSE IF response.status = 401 THEN Rejected("Unauthorized", TRUE)
    ELSE IF ~response.json THEN Fulfilled(Undefined)
    ELSE IF response.body \in {"invalid", "null"} THEN Rejected("TypeError", FALSE)
    ELSE Fulfilled(DataOf(response.body))

\* apiFetch: how the returned promise settles, and whether logout() was called.
apiFetch(response) ==
    IF response.kind = "network_error" THEN Rejected("Failed to fetch", FALSE)
    ELSE IF response.status = 401 THEN Rejected("Unauthorized", TRUE)
    ELSE IF ~response.json
    THEN IF ~Ok(response) THEN Rejected("Server error", FALSE)
         ELSE Fulfilled(Undefined)
    ELSE IF response.body = "invalid" THEN Rejected("SyntaxError", FALSE)
    ELSE IF ~Ok(response)
    THEN IF response.body = "null" THEN Rejected("TypeError", FALSE)
         ELSE IF MessageOf(response.body) = Undefined THEN Rejected("API Error", FALSE)
         ELSE Rejected(MessageOf(response.body), FALSE)
    ELSE IF response.body = "null" THEN Rejected("TypeError", FALSE)
    ELSE Fulfilled(DataOf(response.body))

\* The record of a settled apiFetch call.
Settlement(response) ==
    [state |-> apiFetch(response).state, value |-> apiFetch(response).value,
     response |-> response]

\* Tokens Cognito hands out.
AccessTokens == {"at", "at2"}

RefreshTokens == {"rt", "rt2"}

\* useAuthStore.setAuth
setAuth(user, accessToken, refreshToken) ==
    [user |-> user, accessToken |-> accessToken, refreshToken |-> refreshToken,
     isAuthenticated |-> TRUE]

\* useAuthStore.setTokens
setTokens(a, accessToken, refreshToken) ==
    [a EXCEPT !.accessToken = accessToken, !.refreshToken = refreshToken]

\* Faulty variant of StoreAfter: on a 401 only the tokens are cleared.
StoreAfterClearsTokensOnly(a, response) ==
    IF apiFetch(response).logout
    THEN [a EXCEPT !.accessToken = Null, !.refreshToken = Null]
    ELSE a

\* The store after apiFetch handled the response.
StoreAfter(a, response) == IF apiFetch(response).logout THEN LoggedOut ELSE a

\* The store as created (nobody signed in), or with a persisted session.
InitAuth ==
    /\ auth \in {LoggedOut, LoggedIn}
    /\ route \in IF auth.isAuthenticated THEN {"login", "dashboard"} ELSE {"login"}
    /\ statuses = <<>>
    /\ tasks = <<>>
    /\ InitIdle
    /\ backend = NoBackend

\* Some code calls setTokens (the store offers it; no page of the app does).
SetTokens ==
    /\ pc = "idle"
    /\ \E accessToken \in AccessTokens, refreshToken \in RefreshTokens :
          auth' = setTokens(auth, accessToken, refreshToken)
    /\ UNCHANGED <<route, settled, statuses, tasks, localStatuses, activeId, activeType,
                   pc, frame, pending, error, overColumnId, selectedTask, isModalOpen,
                   loading, mounts, unhandled, backend>>

\* Header.handleLogout: signOut(), logout(), router.push("/login").
handleLogout ==
    /\ route # "login"
    /\ auth.isAuthenticated
    /\ pc = "idle"
    /\ auth' = LoggedOut
    /\ route' = "login"
    /\ UNCHANGED <<settled, statuses, tasks, localStatuses, activeId, activeType,
                   pc, frame, pending, error, overColumnId, selectedTask, isModalOpen,
                   loading, mounts, unhandled, backend>>

\* A request of an authenticated page settles; on 401 apiFetch logs out and
\* sends the browser to /login.
PageRequestSettles(response) ==
    /\ route # "login"
    /\ auth.isAuthenticated
    /\ pc = "idle"
    /\ settled' = Settlement(response)
    /\ auth' = StoreAfter(auth, response)
    /\ route' = IF apiFetch(response).logout THEN "login" ELSE route
    /\ UNCHANGED <<statuses, tasks, localStatuses, activeId, activeType,
                   pc, frame, pending, error, overColumnId, selectedTask, isModalOpen,
                   loading, mounts, unhandled, backend>>

\* LoginPage.handleSubmit up to `await signIn(...)`.
handleSubmit ==
    /\ route = "login"
    /\ pc = "idle"
    /\ error' = Null
    /\ pc' = "signIn"
    /\ UNCHANGED <<route, settled, auth, statuses, tasks, localStatuses, activeId,
                   activeType, frame, pending, overColumnId, selectedTask, isModalOpen,
                   loading, mounts, unhandled, backend>>

\* signIn rejects: the catch of handleSubmit.
SignInRejects ==
    /\ pc = "signIn"
    /\ error' = "login_failed"
    /\ pc' = "idle"
    /\ UNCHANGED <<route, settled, auth, statuses, tasks, localStatuses, activeId,
                   activeType, frame, pending, overColumnId, selectedTask, isModalOpen,
                   loading, mounts, unhandled, backend>>

\* signIn resolves: useAuthStore.setState({ accessToken }), then api.getMe()
\* is awaited.
SignInResolves(accessToken, refreshToken) ==
    /\ pc = "signIn"
    /\ auth' = [auth EXCEPT !.accessToken = accessToken]
    /\ frame' = [kind |-> "login", accessToken |-> accessToken,
                 refreshToken |-> refreshToken, user |-> Null]
    /\ pc' = "getMe"
    /\ UNCHANGED <<route, settled, statuses, tasks, localStatuses, activeId, activeType,
                   pending, error, overColumnId, selectedTask, isModalOpen,
                   loading, mounts, unhandled, backend>>

\* The rest of handleSubmit's try block threw: catch (setError) and finally.
LoginCatch ==
    /\ error' = "login_failed"
    /\ pc' = "idle"
    /\ frame' = NoFrame
    /\ UNCHANGED route

\* setAuth(user, result.accessToken, result.refreshToken); router.push("/dashboard").
LoginCompletes(user) ==
    /\ auth' = setAuth(user, frame.accessToken, frame.refreshToken)
    /\ route' = "dashboard"
    /\ pc' = "idle"
    /\ frame' = NoFrame
    /\ UNCHANGED error

\* api.getMe() settles.  A user that is undefined or null makes `user.email`
\* throw; the user "u0" has no email, so api.updateProfile is awaited next.
GetMeSettles(response) ==
    /\ pc = "getMe"
    /\ settled' = Settlement(response)
    /\ LET r == apiFetch(response)
       IN  IF r.state = "rejected"
           THEN auth' = StoreAfter(auth, response) /\ LoginCatch
           ELSE IF r.value \in {Undefined, Null}
           THEN UNCHANGED auth /\ LoginCatch
           ELSE IF r.value = "u0"
           THEN /\ pc' = "updateProfile"
                /\ frame' = [frame EXCEPT !.user = r.value]
                /\ UNCHANGED <<auth, route, error>>
           ELSE LoginCompletes(r.value)
    /\ UNCHANGED <<statuses, tasks, localStatuses, activeId, activeType,
                   pending, overColumnId, selectedTask, isModalOpen,
                   loading, mounts, unhandled, backend>>

\* api.updateProfile(updateData) settles.  A result that is undefined or null
\* makes `updated.name` throw.
UpdateProfileSettles(response) ==
    /\ pc = "updateProfile"
    /\ settled' = Settlement(response)
    /\ LET r == apiFetch(response)
       IN  IF r.state = "rejected"
           THEN auth' = StoreAfter(auth, response) /\ LoginCatch
           ELSE IF r.value \in {Undefined, Null}
           THEN UNCHANGED auth /\ LoginCatch
           ELSE LoginCompletes(frame.user)
    /\ UNCHANGED <<statuses, tasks, localStatuses, activeId, activeType,
                   pending, overColumnId, selectedTask, isModalOpen,
                   loading, mounts, unhandled, backend>>

----------------------------------------------------------------------------
(* Specifications *)

DragColumnStarts ==
    \E active \in ColumnDraggables(Columns(statuses, localStatuses)) : handleDragStart(active)

DragTaskStarts ==
    \E active \in TaskDraggables(tasks) : handleDragStart(active)

DragOver ==
    \E over \in DropTargets(tasks, Columns(statuses, localStatuses)) \cup {NoDrag} :
        handleDragOver(over)

DragEnds ==
    \E over \in DropTargets(tasks, Columns(statuses, localStatuses)) \cup {NoDrag} :
        handleDragEnd(over)

BoardSucceeds == \E i \in 1..Len(pending) : BoardRequestSucceeds(i)

ReorderFails ==
    \E i \in 1..Len(pending), outcome \in Outcomes : ReorderStatusesFails(i, outcome)

MoveFails ==
    \E i \in 1..Len(pending), outcome \in Outcomes : UpdateTaskStatusFails(i, outcome)

SettingsDragEnds ==
    \E active \in Range(Ids(statuses)), over \in Range(Ids(statuses)) \cup {Null} :
        SettingsHandleDragEnd(active, over)

SettingsSucceeds == \E i \in 1..Len(pending) : SettingsReorderSucceeds(i)

SettingsFails ==
    \E i \in 1..Len(pending), outcome \in Outcomes : SettingsReorderFails(i, outcome)

\* Column reorders of the board and of the settings, and their completions.
NextReorder ==
    \/ DragColumnStarts
    \/ DragEnds
    \/ ReorderStatusesCall
    \/ BoardSucceeds
    \/ ReorderFails
    \/ ReorderStatusesRevert
    \/ SettingsDragEnds
    \/ SettingsReorderCall
    \/ SettingsSucceeds
    \/ SettingsFails

\* Card moves of the board and their completions.
NextMove ==
    \/ DragTaskStarts
    \/ DragEnds
    \/ UpdateTaskStatusCall
    \/ BoardSucceeds
    \/ MoveFails

\* Column reorders of the board whose requests succeed.
NextGrouping ==
    \/ DragColumnStarts
    \/ DragEnds
    \/ ReorderStatusesCall
    \/ BoardSucceeds

\* Drag gestures of the board with the pointer's moves, and their completions.
NextDrag ==
    \/ DragColumnStarts
    \/ DragTaskStarts
    \/ DragOver
    \/ DragEnds
    \/ ReorderStatusesCall
    \/ UpdateTaskStatusCall
    \/ BoardSucceeds

TaskClicked == \E id \in Range(Ids(tasks)) : handleTaskClick(id)

ModalSaves == \E title \in Titles : handleSave(title)

ModalStatusChanges ==
    \E statusId \in Range(Ids(Columns(statuses, localStatuses))) : handleStatusChange(statusId)

ModalSucceeds == \E i \in 1..Len(pending) : ModalRequestSucceeds(i)

ModalFails ==
    \E i \in 1..Len(pending), outcome \in Outcomes : ModalRequestFails(i, outcome)

\* Card moves of the board and the edits of the detail modal, with their
\* completions.
NextModal ==
    \/ DragTaskStarts
    \/ DragEnds
    \/ UpdateTaskStatusCall
    \/ BoardSucceeds
    \/ MoveFails
    \/ TaskClicked
    \/ handleCloseModal
    \/ ModalSaves
    \/ ModalStatusChanges
    \/ handleDelete
    \/ ModalSucceeds
    \/ ModalFails

FetchFails == \E outcome \in Outcomes : FetchDataFails(outcome)

\* Reorders and moves of the board, their completions, and full refreshes,
\* with the backend's durable state.
NextSync ==
    \/ DragColumnStarts
    \/ DragTaskStarts
    \/ DragEnds
    \/ ReorderStatusesCall
    \/ UpdateTaskStatusCall
    \/ BoardSucceeds
    \/ ReorderFails
    \/ ReorderStatusesRevert
    \/ MoveFails
    \/ FetchDataStarts
    \/ FetchDataSucceeds
    \/ FetchFails

Next ==
    \/ DragColumnStarts
    \/ DragTaskStarts
    \/ DragEnds
    \/ ReorderStatusesCall
    \/ UpdateTaskStatusCall
    \/ BoardSucceeds
    \/ ReorderFails
    \/ ReorderStatusesRevert
    \/ MoveFails
    \/ SettingsDragEnds
    \/ SettingsReorderCall
    \/ SettingsSucceeds
    \/ SettingsFails

Spec == Init /\ [][Next]_vars

ReorderSpec == InitReorder /\ [][NextReorder]_vars

MoveSpec == InitMove /\ [][NextMove]_vars

GroupingSpec == InitGrouping /\ [][NextGrouping]_vars

PlaceholderSpec == InitPlaceholder /\ [][NextMove]_vars

DragSpec == InitDrag /\ [][NextDrag]_vars

SyncSpec == InitSync /\ [][NextSync]_vars

ModalSpec == InitSync /\ [][NextModal]_vars

PageRequest == \E response \in Responses : PageRequestSettles(response)

SignIn ==
    \E accessToken \in AccessTokens, refreshToken \in RefreshTokens :
        SignInResolves(accessToken, refreshToken)

GetMe == \E response \in Responses : GetMeSettles(response)

UpdateProfile == \E response \in Responses : UpdateProfileSettles(response)

\* Signing in and out, and the requests of the pages in between.
NextAuth ==
    \/ SetTokens
    \/ handleLogout
    \/ PageRequest
    \/ handleSubmit
    \/ SignInRejects
    \/ SignIn
    \/ GetMe
    \/ UpdateProfile

AuthSpec == InitAuth /\ [][NextAuth]_vars

\* Card moves of the board, and status changes and deletions in the detail
\* modal, with their completions.
NextCard ==
    \/ DragTaskStarts
    \/ DragEnds
    \/ UpdateTaskStatusCall
    \/ BoardSucceeds
    \/ MoveFails
    \/ TaskClicked
    \/ handleCloseModal
    \/ ModalStatusChanges
    \/ handleDelete
    \/ ModalSucceeds
    \/ ModalFails

CardSpec == InitSync /\ [][NextCard]_vars

StatusCreates == \E slug \in NewSlugs : SettingsHandleCreate(slug)

StatusEdits == \E statusId \in Range(Ids(statuses)) : SettingsHandleSaveEdit(statusId)

StatusDeletes == \E statusId \in Range(Ids(statuses)) : SettingsHandleDelete(statusId)

StatusRequestSucceeds == \E i \in 1..Len(pending) : SettingsRequestSucceeds(i)

StatusRequestFails ==
    \E i \in 1..Len(pending), outcome \in Outcomes : SettingsRequestFails(i, outcome)

\* Reorders, edits and deletes of the status settings, with their
\* completions.
NextSettings ==
    \/ SettingsDragEnds
    \/ SettingsReorderCall
    \/ SettingsSucceeds
    \/ SettingsFails
    \/ StatusEdits
    \/ StatusDeletes
    \/ StatusRequestSucceeds
    \/ StatusRequestFails

\* Creates and edits of the status settings, with their completions.
NextCreate ==
    \/ StatusCreates
    \/ StatusEdits
    \/ StatusRequestSucceeds
    \/ StatusRequestFails

SettingsSpec == InitSettings /\ [][NextSettings]_vars

CreateSpec == InitSettings /\ [][NextCreate]_vars

----------------------------------------------------------------------------
(* Vocabulary of the properties *)

\* The column list the page shows.
Shown == IF route = "board" THEN Columns(statuses, localStatuses) ELSE statuses

ShownNext == IF route = "board" THEN Columns(statuses', localStatuses') ELSE statuses'

\* 1-based position of the column with this id.
PosOf(cols, id) == CHOOSE i \in 1..Len(cols) : cols[i].id = id

\* l without its element at position s.
Others(l, s) == [i \in 1..(Len(l) - 1) |-> IF i < s THEN l[i] ELSE l[i + 1]]

\* r is l with the element at position s taken out and put back at position d.
IsSingleMove(l, s, d, r) ==
    /\ Len(r) = Len(l)
    /\ r[d] = l[s]
    /\ Others(r, d) = Others(l, s)

IsPermutationOf(l, base) ==
    /\ Len(l) = Len(base)
    /\ \A i \in 1..Len(base) : Cardinality({j \in 1..Len(l) : l[j] = base[i]}) = 1

IsReorder(r) == r.kind \in {"reorder", "settings_reorder"}

\* The buckets of a grouping that hold the card, and how often it is held.
BucketsOf(g, id) == {k \in DOMAIN g : \E j \in 1..Len(g[k]) : g[k][j].id = id}

Occurrences(g, id) ==
    Cardinality({kj \in UNION {{<<k, j>> : j \in 1..Len(g[k])} : k \in DOMAIN g} :
                    g[kj[1]][kj[2]].id = id})

\* The column a card is rendered in (Null: in none).
ColumnOf(ts, cols, id) ==
    LET b == BucketsOf(tasksByStatusId(ts, cols), id)
    IN  IF b = {} THEN Null ELSE CHOOSE k \in b : TRUE

\* The column under a drop target: the column itself, or the column the card
\* dropped on is rendered in.
OverColumn(over, ts, cols) ==
    IF over.kind \in {"droppable", "column"} THEN over.id ELSE ColumnOf(ts, cols, over.id)

\* The slug the specification gives for a legacy status.
ClaimedSlug(status) ==
    CASE status = "TODO" -> "todo"
      [] status = "IN_PROGRESS" -> "in_progress"
      [] status = "IN_REVIEW" -> "in_review"
      [] status = "DONE" -> "done"

HasSlug(cols, slug) == \E i \in 1..Len(cols) : cols[i].slug = slug

IdOfSlug(cols, slug) == cols[CHOOSE i \in 1..Len(cols) : cols[i].slug = slug].id

\* The three steps as the specification states them: statusId, else slug, else first.
ThreeStepColumn(task, cols) ==
    IF task.statusId # Null THEN task.statusId
    ELSE IF HasSlug(cols, ClaimedSlug(task.status)) THEN IdOfSlug(cols, ClaimedSlug(task.status))
    ELSE cols[1].id

\* The request's card is as the move left it.
Untouched(r) == FindTask(tasks, r.task.id) = [r.task EXCEPT !.statusId = r.targetStatusId]

----------------------------------------------------------------------------
(* C1 *)

\* C1: when the request of a column reorder fails and nothing else has touched
\* the order since the reorder (the page still shows the order the reorder
\* produced), the order shown once the failure is handled is exactly the order
\* shown before the reorder, on the board and in the status settings.
C1_FailedReorderRestoresOrder ==
    [][ /\ (pc = "reorder_alert" /\ pc' = "idle" /\ Shown = frame.newColumns)
            => ShownNext = frame.columns
        /\ \A i \in 1..Len(pending), outcome \in Failures :
              (SettingsReorderFails(i, outcome) /\ Shown = pending[i].newColumns)
                  => ShownNext = pending[i].columns ]_vars

\* The alert of a failed board reorder is open over the optimistic order, which
\* differs from the order the reorder started from.
C1_Witness ==
    /\ pc = "reorder_alert"
    /\ Shown = frame.newColumns
    /\ frame.columns # frame.newColumns
    /\ pending = <<>>

----------------------------------------------------------------------------
(* C3 *)

\* C3: when a second column reorder was applied on top of a first one whose
\* request is still in flight, and the first request then fails, the order
\* shown after the failure is handled is still the order of the second reorder.
C3_StaleRevertKeepsNewerOrder ==
    [][ /\ (/\ pc = "reorder_alert" /\ pc' = "idle"
            /\ \E j \in 1..Len(pending) :
                  /\ pending[j].kind = "reorder"
                  /\ pending[j].columns = frame.newColumns
                  /\ Shown = pending[j].newColumns)
            => ShownNext = Shown
        /\ \A i \in 1..Len(pending), outcome \in Failures :
              (/\ SettingsReorderFails(i, outcome)
               /\ \E j \in (i + 1)..Len(pending) :
                     /\ pending[j].columns = pending[i].newColumns
                     /\ Shown = pending[j].newColumns)
                  => ShownNext = Shown ]_vars

----------------------------------------------------------------------------
(* C4 *)

\* C4: in every state the board reaches through column reorders, their
\* completions and their reverts, the columns shown are the loaded columns,
\* each exactly once, and the cards are the cards that were loaded.
C4_ColumnsArePermutation ==
    route = "board" =>
        /\ IsPermutationOf(Shown, IF Len(statuses) > 0 THEN statuses ELSE DEFAULT_STATUSES)
        /\ tasks \in FewTaskLists

\* A reorder was reverted under a second reorder still in flight.
C4_Witness ==
    /\ route = "board"
    /\ Len(pending) = 1
    /\ pending[1].kind = "reorder"
    /\ Shown # pending[1].newColumns
    /\ Shown # statuses

----------------------------------------------------------------------------
(* C7 *)

\* C7: a reorder of the columns at positions s # d shows the list with the
\* element at s taken out and put back at d, the others keeping their order;
\* [A,B,C,D] with (s,d) = (0,2) becomes [B,C,A,D].
C7_ReorderIsSingleMove ==
    [][ /\ \A over \in ColumnDraggables(Shown) :
              (handleDragEnd(over) /\ activeId.kind = "column" /\ over.id # activeId.id)
                  => /\ IsSingleMove(Shown, PosOf(Shown, activeId.id),
                                     PosOf(Shown, over.id), ShownNext)
                     /\ (/\ Ids(Shown) = <<"todo", "in_progress", "in_review", "done">>
                         /\ activeId.id = "todo" /\ over.id = "in_review")
                            => Ids(ShownNext) = <<"in_progress", "in_review", "todo", "done">>
        /\ \A active \in Range(Ids(statuses)), over \in Range(Ids(statuses)) :
              (SettingsHandleDragEnd(active, over) /\ active # over)
                  => IsSingleMove(Shown, PosOf(Shown, active), PosOf(Shown, over), ShownNext)
      ]_vars

\* The placeholder columns [A,B,C,D] after A was dragged onto C.
C7_Witness ==
    /\ route = "board"
    /\ statuses = <<>>
    /\ Ids(Shown) = <<"in_progress", "in_review", "todo", "done">>

----------------------------------------------------------------------------
(* C8 *)

\* C8: a reorder (s,d) followed by the reorder (d,s) of its result gives the
\* original order: of two reorders in flight, where the second started from
\* the first one's result with the indices exchanged, the second one's result
\* is the order the first one started from.
C8_InverseReorderRestores ==
    \A i, j \in 1..Len(pending) :
        (/\ i < j
         /\ IsReorder(pending[i]) /\ IsReorder(pending[j])
         /\ pending[j].columns = pending[i].newColumns
         /\ pending[j].oldIndex = pending[i].newIndex
         /\ pending[j].newIndex = pending[i].oldIndex)
            => pending[j].newColumns = pending[i].columns

\* A move over two positions and its inverse are both in flight.
C8_Witness ==
    /\ Len(pending) = 2
    /\ IsReorder(pending[1]) /\ IsReorder(pending[2])
    /\ pending[1].oldIndex = 0 /\ pending[1].newIndex = 2
    /\ pending[2].columns = pending[1].newColumns
    /\ pending[2].oldIndex = 2 /\ pending[2].newIndex = 0
    /\ Shown = pending[1].columns

----------------------------------------------------------------------------
(* C2 *)

\* C2: a card rendered in column X that is dropped on another column Y, with a
\* request issued, is rendered in Y; while nothing else touches the card it is
\* still in Y when the request succeeds, and back in X when the request fails.
C2_MoveThenSucceedOrRevert ==
    [][ /\ (pc = "idle" /\ pc' = "move_call") =>
              \A over \in DropTargets(tasks, Shown) :
                 (/\ handleDragEnd(over) /\ activeType = "task"
                  /\ ColumnOf(tasks, Shown, activeId.id) # OverColumn(over, tasks, Shown))
                     => ColumnOf(tasks', ShownNext, activeId.id) = OverColumn(over, tasks, Shown)
        /\ \A i \in 1..Len(pending) :
              (/\ Len(pending') < Len(pending)
               /\ pending[i].kind = "move" /\ Untouched(pending[i]))
                  => /\ BoardRequestSucceeds(i)
                        => ColumnOf(tasks', ShownNext, pending[i].task.id)
                             = ColumnOf(tasks, Shown, pending[i].task.id)
                     /\ \A outcome \in Failures :
                           UpdateTaskStatusFails(i, outcome)
                              => ColumnOf(tasks', ShownNext, pending[i].task.id)
                                   = ColumnOf(<<pending[i].task>>, Shown, pending[i].task.id)
      ]_vars

\* A card taken from the first column is rendered in the third while its
\* request is in flight.
C2_Witness ==
    /\ route = "board"
    /\ Len(pending) = 1
    /\ pending[1].kind = "move"
    /\ Untouched(pending[1])
    /\ ColumnOf(<<pending[1].task>>, Shown, pending[1].task.id) = "s1"
    /\ ColumnOf(tasks, Shown, pending[1].task.id) = "s3"

----------------------------------------------------------------------------
(* C5 *)

\* C5: the grouping has one bucket per column shown and holds every card
\* exactly once, whatever the card's statusId and legacy status.
C5_EveryCardInExactlyOneBucket ==
    route = "board" =>
        LET g == tasksByStatusId(tasks, Shown)
        IN  /\ DOMAIN g = Range(Ids(Shown))
            /\ \A i \in 1..Len(tasks) : Occurrences(g, tasks[i].id) = 1

\* Reordered columns with a card whose statusId names no column and a card
\* whose legacy status has no slug among the columns.
C5_Witness ==
    /\ route = "board"
    /\ statuses = ServerStatuses
    /\ Shown # statuses
    /\ \E i \in 1..Len(tasks) : tasks[i].statusId = DanglingId
    /\ \E i \in 1..Len(tasks) : tasks[i].statusId = Null /\ tasks[i].status = "IN_REVIEW"

----------------------------------------------------------------------------
(* C6 *)

\* C6, the three steps taken literally: every card is rendered in its statusId if set, else in the
\* column whose slug its legacy status maps to, else in the first column.
C6_ThreeStepResolution ==
    route = "board" =>
        \A i \in 1..Len(tasks) :
            ColumnOf(tasks, Shown, tasks[i].id) = ThreeStepColumn(tasks[i], Shown)

\* The column of C6 with the fallback the grouping applies: a statusId counts only if it names a column
\* that is shown; a statusId that names none leads to the first column.
AmendedColumn(task, cols) ==
    IF task.statusId # Null /\ task.statusId \in Range(Ids(cols)) THEN task.statusId
    ELSE IF task.statusId = Null /\ HasSlug(cols, ClaimedSlug(task.status))
    THEN IdOfSlug(cols, ClaimedSlug(task.status))
    ELSE cols[1].id

\* C6, with the fallback: every card is rendered in its statusId if that is set and names
\* a column shown; with no statusId, in the column whose slug its legacy status
\* maps to; else (no such slug, or a statusId naming no column) in the first
\* column.  With columns [todo, in_progress, done] a card with no statusId and
\* legacy status IN_REVIEW is rendered under todo.
C6_ResolutionWithFirstColumnFallback ==
    route = "board" =>
        \A i \in 1..Len(tasks) :
            /\ ColumnOf(tasks, Shown, tasks[i].id) = AmendedColumn(tasks[i], Shown)
            /\ (/\ [k \in 1..Len(Shown) |-> Shown[k].slug] = <<"todo", "in_progress", "done">>
                /\ tasks[i].statusId = Null /\ tasks[i].status = "IN_REVIEW")
                   => ColumnOf(tasks, Shown, tasks[i].id) = IdOfSlug(Shown, "todo")

\* Columns [todo, in_progress, done] with an IN_REVIEW card without statusId
\* and a card whose statusId names no column, both under todo.
C6_Witness ==
    /\ route = "board"
    /\ [k \in 1..Len(Shown) |-> Shown[k].slug] = <<"todo", "in_progress", "done">>
    /\ \E i, j \in 1..Len(tasks) :
          /\ tasks[i].statusId = Null /\ tasks[i].status = "IN_REVIEW"
          /\ tasks[j].statusId = DanglingId
          /\ ColumnOf(tasks, Shown, tasks[i].id) = IdOfSlug(Shown, "todo")
          /\ ColumnOf(tasks, Shown, tasks[j].id) = IdOfSlug(Shown, "todo")

----------------------------------------------------------------------------
(* C9 *)

\* C9: a card dropped on the column it is in (statusId, else the slug of its
\* legacy status, else the first column) changes no card and issues no request.
C9_DropOnOwnColumnIsNoOp ==
    [][ \A over \in DropTargets(tasks, Shown) :
           (/\ activeType = "task" /\ activeType' = Null
            /\ handleDragEnd(over)
            /\ TargetStatusId(over, tasks, Shown)
                 = ThreeStepColumn(FindTask(tasks, activeId.id), Shown))
               => (tasks' = tasks /\ pc' = "idle") ]_vars

----------------------------------------------------------------------------
(* C10 *)

\* C10: whenever a request is issued, the optimistic update of its operation
\* is already in the local state: the new order for a reorder, the new
\* statusId of the card for a move.
C10_LocalUpdateBeforeRequest ==
    [][ Len(pending') > Len(pending) =>
          LET r == pending'[Len(pending')]
          IN  /\ r.kind = "reorder" => localStatuses = r.newColumns
              /\ r.kind = "settings_reorder" => statuses = r.newColumns
              /\ r.kind = "move" => FindTask(tasks, r.task.id).statusId = r.targetStatusId
      ]_vars

\* The board between the optimistic setLocalStatuses and the api call.
C10_Witness ==
    /\ pc = "reorder_call"
    /\ localStatuses = frame.newColumns
    /\ frame.columns # frame.newColumns
    /\ \A i \in 1..Len(pending) : pending[i] # frame

----------------------------------------------------------------------------
(* C13 *)

\* A notice the user sees: the alert of the board, or the error banner of the
\* status settings.
NoticeShown == pc = "reorder_alert" \/ error # Null

\* C13: every failed request of a reorder or of a card move leads to the
\* revert of its optimistic update and to a notice the user sees.
C13_FailureRevertsAndNotifies ==
    [][ /\ \A i \in 1..Len(pending), outcome \in Failures :
              /\ ReorderStatusesFails(i, outcome) => NoticeShown'
              /\ SettingsReorderFails(i, outcome)
                    => (NoticeShown' /\ statuses' = pending[i].columns)
              /\ UpdateTaskStatusFails(i, outcome)
                    => /\ FindTask(tasks', pending[i].task.id) = pending[i].task
                       /\ NoticeShown'
        /\ (pc = "reorder_alert" /\ pc' = "idle") => localStatuses' = frame.columns
      ]_vars

----------------------------------------------------------------------------
(* C15 *)

\* The cards other than the one with this id.
OtherCards(ts, id) == SelectSeq(ts, LAMBDA t : t.id # id)

\* C15: a failed request changes nothing but the target of its operation: a
\* failed reorder leaves the cards and the session as they were, a failed move
\* leaves the other cards, the column order and the session as they were,
\* whatever the failure (401 included).
C15_FailureTouchesOnlyItsTarget ==
    [][ \A i \in 1..Len(pending), outcome \in Failures :
           /\ (ReorderStatusesFails(i, outcome) \/ SettingsReorderFails(i, outcome))
                 => (tasks' = tasks /\ auth' = auth)
           /\ UpdateTaskStatusFails(i, outcome)
                 => /\ OtherCards(tasks', pending[i].task.id)
                          = OtherCards(tasks, pending[i].task.id)
                    /\ ShownNext = Shown
                    /\ auth' = auth ]_vars

----------------------------------------------------------------------------
(* C16 *)

\* C16: a reorder whose source or destination is no index of the column list,
\* and a card move whose target column is not a column of the card's project,
\* change nothing and issue no request.
C16_InvalidOperationIsNoOp ==
    [][ /\ \A over \in DropTargets(tasks, Shown) :
              (/\ handleDragEnd(over)
               /\ \/ /\ activeId.kind = "column" /\ over.kind = "column"
                      /\ -1 \in {FindIndex(Shown, activeId.id), FindIndex(Shown, over.id)}
                  \/ /\ activeType = "task"
                      /\ TargetStatusId(over, tasks, Shown) # Null
                      /\ TargetStatusId(over, tasks, Shown) \notin Range(Ids(statuses)))
                 => (tasks' = tasks /\ localStatuses' = localStatuses /\ pc' = "idle")
        /\ \A active \in Range(Ids(statuses)), over \in Range(Ids(statuses)) :
              (/\ SettingsHandleDragEnd(active, over)
               /\ -1 \in {FindIndex(statuses, active), FindIndex(statuses, over)})
                 => (statuses' = statuses /\ pc' = "idle") ]_vars

----------------------------------------------------------------------------
(* C20 *)

\* C20: when a card was moved again while the request of its first move was in
\* flight and the first request fails, the card stays where the second move
\* put it; the second request succeeding then leaves it there.
C20_StaleMoveRevertKeepsNewerMove ==
    [][ \A i \in 1..Len(pending), outcome \in Failures :
           (/\ UpdateTaskStatusFails(i, outcome)
            /\ \E j \in (i + 1)..Len(pending) :
                  /\ pending[j].kind = "move"
                  /\ pending[j].task.id = pending[i].task.id
                  /\ Untouched(pending[j]))
              => ColumnOf(tasks', ShownNext, pending[i].task.id)
                   = ColumnOf(tasks, Shown, pending[i].task.id)
      ]_vars

----------------------------------------------------------------------------
(* C14 *)

\* C14: whatever the outcome of the request, no handler's promise rejects: a
\* rejected request is caught inside the drag-end handler of the board and of
\* the status settings.
C14_NoUnhandledRejection == unhandled = {}

\* A request was answered with 401 and its handler has run to its end.
C14_Witness ==
    /\ auth = LoggedOut
    /\ pc = "idle"
    /\ pending = <<>>
    /\ unhandled = {}

----------------------------------------------------------------------------
(* C17 *)

\* C17: a drag released over no target changes neither the columns shown nor
\* any card and issues no request; and every drag end, whatever the target,
\* clears activeId, activeType and overColumnId.
C17_DropOnNothingAndReset ==
    [][ (activeId # NoDrag /\ pc = "idle" /\ overColumnId' \in {Null, overColumnId}) =>
          /\ handleDragEnd(NoDrag)
                => (ShownNext = Shown /\ tasks' = tasks /\ pc' = "idle" /\ pending' = pending)
          /\ \A over \in DropTargets(tasks, Shown) \cup {NoDrag} :
                handleDragEnd(over)
                    => (activeId' = NoDrag /\ activeType' = Null /\ overColumnId' = Null)
      ]_vars

\* A card is being dragged over a column while a request is in flight.
C17_Witness ==
    /\ activeType = "task"
    /\ overColumnId \in Range(Ids(Shown))
    /\ Len(pending) = 1
    /\ pc = "idle"

----------------------------------------------------------------------------
(* C11 *)

\* The columns shown are in the durable order and every card is rendered in
\* the column the backend holds for it.
Reconciled ==
    /\ Ids(Shown) = Ids(backend.statuses)
    /\ \A i \in 1..Len(tasks) :
          ColumnOf(tasks, Shown, tasks[i].id)
              = ColumnOf(backend.tasks, backend.statuses, tasks[i].id)

\* C11: once a failed request has been handled and no request is in flight,
\* the columns shown and the column of every card are those of the backend,
\* whatever operations overlapped and in whatever order they completed.
C11_FailureReconcilesWithBackend ==
    [][ (/\ Len(pending') = 0 /\ pc' = "idle" /\ ~loading'
         /\ backend.observed
         /\ \/ pc = "reorder_alert"
            \/ \E i \in 1..Len(pending), outcome \in Failures :
                  UpdateTaskStatusFails(i, outcome))
           => Reconciled' ]_vars

----------------------------------------------------------------------------
(* C12 *)

----------------------------------------------------------------------------
(* C18 *)

\* A card that stays on the board is rendered in another column, or the
\* columns shown change.
AssignmentChanges ==
    \/ ShownNext # Shown
    \/ \E id \in Range(Ids(tasks)) \cap Range(Ids(tasks')) :
          ColumnOf(tasks', ShownNext, id) # ColumnOf(tasks, Shown, id)

\* C18: on the board, the columns shown and the column of a card change only
\* in a drag end (reorder, move), in the revert of a failed reorder or move,
\* and in a full refresh.
C18_OnlyDragsRevertsAndRefreshesWrite ==
    [][ AssignmentChanges
          => \/ DragEnds
             \/ MoveFails
             \/ ReorderStatusesRevert
             \/ FetchDataStarts
             \/ FetchDataSucceeds ]_vars

----------------------------------------------------------------------------
(* C19 *)

\* C19: the revert of a failed move sets the card's statusId back to what it
\* was before the move and leaves everything else as it was just before the
\* revert: the card's other fields, whether the card is on the board at all,
\* and the other cards.
C19_MoveRevertRestoresOnlyTheColumn ==
    [][ \A i \in 1..Len(pending), outcome \in Failures :
           UpdateTaskStatusFails(i, outcome)
              => LET id  == pending[i].task.id
                     now == FindTask(tasks, id)
                 IN  /\ Len(tasks') = Len(tasks)
                     /\ OtherCards(tasks', id) = OtherCards(tasks, id)
                     /\ now = NoTask => FindTask(tasks', id) = NoTask
                     /\ now # NoTask
                           => FindTask(tasks', id)
                                = [now EXCEPT !.statusId = pending[i].task.statusId]
      ]_vars

----------------------------------------------------------------------------
(* C21 *)

\* The response is a failed attempt: fetch rejected, or the status is 401 or
\* another non-success status.
FailedAttempt(response) ==
    \/ response.kind = "network_error"
    \/ response.status = 401
    \/ ~Ok(response)

\* C21: apiFetch rejects for every failed attempt (network error, 401,
\* non-success with a non-JSON body, non-success with a JSON body); when it
\* resolves the response was a success, and the value is the body's data
\* field for a JSON body and undefined otherwise.
C21_ApiFetchRejectsEveryFailure ==
    settled # NoSettlement =>
        /\ FailedAttempt(settled.response) => settled.state = "rejected"
        /\ settled.state = "fulfilled" =>
              /\ ~FailedAttempt(settled.response)
              /\ settled.value = IF settled.response.json
                                 THEN DataOf(settled.response.body)
                                 ELSE Undefined

\* A server error whose JSON body has a data field was rejected.
C21_Witness ==
    /\ settled # NoSettlement
    /\ settled.state = "rejected"
    /\ settled.response.kind = "response"
    /\ settled.response.status = 500
    /\ settled.response.json
    /\ settled.response.body = "data_user"

----------------------------------------------------------------------------
(* C30 *)

\* The step calls logout(): the header's button, or apiFetch on a 401.
CallsLogout ==
    \/ handleLogout
    \/ \E response \in Responses :
          /\ apiFetch(response).logout
          /\ \/ PageRequestSettles(response)
             \/ GetMeSettles(response)
             \/ UpdateProfileSettles(response)

\* C30: whenever the store says isAuthenticated, user and accessToken are
\* non-null; and right after logout() user, accessToken and refreshToken are
\* null and isAuthenticated is false.
C30_AuthenticatedHasUserAndToken ==
    /\ [](auth.isAuthenticated => auth.user # Null /\ auth.accessToken # Null)
    /\ [][ CallsLogout => /\ auth'.user = Null
                          /\ auth'.accessToken = Null
                          /\ auth'.refreshToken = Null
                          /\ ~auth'.isAuthenticated ]_vars

\* A user without an email has signed in after a logout: handleSubmit went
\* through getMe and updateProfile to setAuth.
C30_Witness ==
    /\ auth.isAuthenticated
    /\ auth.user = "u0"
    /\ route = "dashboard"

----------------------------------------------------------------------------
(* C22 *)

\* The request the step has just sent.
Sent == pending'[Len(pending')]

\* C22: the request of a column reorder, on the board and in the settings,
\* carries the identifiers of the column list shown when it is sent (the
\* optimistic list of the drop), in the same order, each exactly once.
C22_ReorderRequestCarriesFullOrder ==
    [][ (ReorderStatusesCall \/ SettingsReorderCall)
          => /\ StatusIds(Sent) = Ids(Shown)
             /\ \A i, j \in 1..Len(StatusIds(Sent)) :
                   StatusIds(Sent)[i] = StatusIds(Sent)[j] => i = j
             /\ Range(StatusIds(Sent)) = Range(Ids(Sent.columns)) ]_vars

\* A reorder request is in flight whose order differs from the order before
\* the drop.
C22_Witness ==
    \E i \in 1..Len(pending) :
        /\ pending[i].kind \in {"reorder", "settings_reorder"}
        /\ StatusIds(pending[i]) # Ids(pending[i].columns)

----------------------------------------------------------------------------
(* C23 *)

\* The handler of a drag end stands right before its api call.
AtCall == pc \in {"reorder_call", "move_call", "settings_call"}

\* C23: a request is sent only by the handler of a drag end, once, as the
\* step that follows the drop; a handler reaches its api call only through a
\* drop; and every other step that touches the requests in flight, a failure
\* included, only takes one away.
C23_OneRequestPerGestureNoRetry ==
    [][ /\ pending' # pending
           => \/ AtCall /\ ~AtCall' /\ frame' = NoFrame /\ pending' = Append(pending, frame)
              \/ \E i \in 1..Len(pending) : pending' = Without(pending, i)
        /\ (AtCall' /\ ~AtCall) => (DragEnds \/ SettingsDragEnds)
        /\ (ReorderFails \/ ReorderStatusesRevert \/ MoveFails \/ SettingsFails)
              => ~AtCall' /\ Len(pending') <= Len(pending) ]_vars

\* A request has failed and nothing is in flight or about to be sent.
C23_Witness ==
    /\ error = "reorder_failed"
    /\ pending = <<>>
    /\ pc = "idle"

----------------------------------------------------------------------------
(* C24 *)

\* The board shows the built-in placeholder columns.
PlaceholdersShown == route = "board" /\ Falsy(Shown[1].projectId)

\* C24: while the board shows the placeholder columns, a column reorder
\* changes only the local order (localStatuses and the drag state) and no
\* request is prepared or sent; and a reorder request that is sent comes
\* from a column list whose first column has a non-empty projectId.
C24_PlaceholderReorderIsLocalOnly ==
    [][ /\ (PlaceholdersShown /\ DragEnds /\ activeId.kind = "column")
              => /\ pending' = pending
                 /\ pc' = "idle"
                 /\ frame' = NoFrame
                 /\ UNCHANGED <<statuses, tasks, error, auth, backend>>
        /\ PlaceholdersShown => pending' = <<>>
        /\ ReorderStatusesCall => ~Falsy(Sent.columns[1].projectId) ]_vars

\* The placeholder columns were reordered and nothing is in flight.
C24_Witness ==
    /\ route = "board"
    /\ statuses = <<>>
    /\ localStatuses # <<>>
    /\ Ids(localStatuses) # Ids(DEFAULT_STATUSES)
    /\ pc = "idle"
    /\ pending = <<>>

----------------------------------------------------------------------------
(* C25 *)

\* C25: a status change in the detail modal leaves the cards and the card the
\* modal shows (from which it fills its edit data) as they are when the
\* request is sent and when the request fails; the card gets its new
\* statusId in the step in which the request succeeds.
C25_ModalStatusChangeIsNotOptimistic ==
    [][ /\ ModalStatusChanges => tasks' = tasks /\ selectedTask' = selectedTask
        /\ \A i \in 1..Len(pending) :
              pending[i].kind = "status_change"
                 => /\ \A outcome \in Failures :
                          ModalRequestFails(i, outcome)
                             => tasks' = tasks /\ selectedTask' = selectedTask
                    /\ (ModalRequestSucceeds(i) /\ FindTask(tasks, pending[i].task.id) # NoTask)
                          => FindTask(tasks', pending[i].task.id).statusId
                                = pending[i].targetStatusId ]_vars

\* A status change of the modal has failed: the card is where it was and the
\* backend was not changed.
C25_Witness ==
    /\ isModalOpen
    /\ selectedTask.id = "t1"
    /\ pending = <<>>
    /\ auth = LoggedOut
    /\ backend.tasks = tasks
    /\ FindTask(tasks, "t1").statusId = Null

----------------------------------------------------------------------------
(* C26 *)

\* The column was deleted on the backend and is gone from the list shown.
DeletedAndGone(id) ==
    /\ backend.observed
    /\ id \notin Range(Ids(backend.statuses))
    /\ id \notin Range(Ids(statuses))

\* C26: in the status settings, a column that was deleted on the backend and
\* is gone from the local list is not in the local list after any step.
C26_DeletedColumnNeverReappears ==
    [][ \A id \in Range(Ids(ServerStatuses)) :
           (SettingsShown /\ DeletedAndGone(id)) => id \notin Range(Ids(statuses')) ]_vars

----------------------------------------------------------------------------
(* C27 *)

\* C27: in the status settings, when no call is pending, every column the
\* backend has created is in the local list.
C27_CreatedColumnsArePresent ==
    (SettingsShown /\ backend.observed /\ pending = <<>> /\ pc = "idle")
       => \A slug \in NewSlugs :
             Created(slug).id \in Range(Ids(backend.statuses))
                => Created(slug).id \in Range(Ids(statuses))

----------------------------------------------------------------------------
(* C28 *)

\* C28: every card-move request in flight names the id of a column the
\* backend returned for the project, and never the id of a built-in
\* placeholder column.
C28_MoveRequestNamesRealColumn ==
    \A i \in 1..Len(pending) :
        pending[i].kind = "move"
           => /\ pending[i].targetStatusId \in Range(Ids(statuses))
              /\ pending[i].targetStatusId \notin Range(Ids(DEFAULT_STATUSES))

----------------------------------------------------------------------------
(* C29 *)

\* C29: a card move, the sending of its request, its success and its failure
\* revert leave the sequence of card ids as it is; on the board with its
\* detail modal the ids change only when a deletion succeeds.
C29_MoveNeverAddsOrRemovesCards ==
    [][ /\ (DragEnds \/ UpdateTaskStatusCall \/ BoardSucceeds \/ MoveFails)
              => Ids(tasks') = Ids(tasks)
        /\ Ids(tasks') # Ids(tasks)
              => \E i \in 1..Len(pending) :
                    pending[i].kind = "delete" /\ ModalRequestSucceeds(i) ]_vars

\* The move request of a card is in flight and the card has been deleted.
C29_Witness ==
    \E i \in 1..Len(pending) :
        /\ pending[i].kind = "move"
        /\ FindTask(tasks, pending[i].task.id) = NoTask

====
